---- MODULE Spec2Model ----
(***************************************************************************)
(* The annotation store layer of the image annotator: ClassesStore,        *)
(* SingleImage and ImageStore (src/annotator/store), as a state machine.   *)
(*                                                                         *)
(* A SingleImage is an object with an identity (its uuid); the store's     *)
(* _images list holds references to such objects, so the list is modelled  *)
(* as a sequence of identities and the objects' fields live in img.        *)
(***************************************************************************)
EXTENDS Integers, Sequences, FiniteSets, TLC

VARIABLES
    classes,          \* ClassesStore.classes: the list of class dictionaries
    images,           \* ImageStore._images: the list of SingleImage objects (identities)
    current,          \* ImageStore._current_uuid
    img,              \* the fields of every SingleImage object, by identity
    created,          \* the identities of the SingleImage objects constructed so far
    last,             \* the last call: operation, arguments, what it raised or returned
    trace,            \* the store's (images, current) at each step of the last delete_images
    rng               \* the state of the generator of Python's random module

vars == <<classes, images, current, img, created, last, trace, rng>>

(***************************** bounds **************************************)
MaxIds == 3        \* SingleImage objects that are ever constructed
MaxImages == 3     \* entries of ImageStore._images
MaxBoxes == 2      \* boxes of one image
MaxDet == 1        \* detections the detector returns for one image
MaxClasses == 3    \* classes in the ClassesStore
MaxUid == 2        \* the largest class uid a caller passes
MaxRename == 2     \* entries of the lists change_name is given
MaxData == 5       \* eligible images of one train/test split

(***************************** values **************************************)
\* Python's None, as an identity that no SingleImage has.
None == 0
Ids == 1 .. MaxIds
Uids == 0 .. MaxUid
\* An absent optional uid argument (new_label_uid = None).
NoUid == -1
\* What add_images is given besides SingleImage objects: the path of an image
\* file that opens, and a path that Image.open rejects.
Path == -1
BadPath == -2
BoxVals == {1, 2}
ClassNames == {"class1", "class2", "class3"}
InitNames == <<"class1", "class2">>
\* Names change_name is given: one that add_class is given too, and one more.
NewNames == {"class3", "class4"}
DEFAULT_COLORS == <<"#FF0000", "#00FF00", "#0000FF", "#FFFF00", "#00FFFF", "#FF00FF">>
Colors == {DEFAULT_COLORS[1], DEFAULT_COLORS[2]}
\* Labels a detector reports: names of classes, and one that is no class name.
DetLabels == {"class1", "class2", "unknown"}

(***************************** helpers *************************************)
Range(s) == {s[i] : i \in 1 .. Len(s)}

RECURSIVE SeqsUpTo(_, _)
\* All sequences over S of length at most n.
SeqsUpTo(S, n) ==
    IF n = 0 THEN {<<>>}
    ELSE LET shorter == SeqsUpTo(S, n - 1)
         IN shorter \cup {Append(s, x) : s \in {t \in shorter : Len(t) = n - 1}, x \in S}

\* next(... for ... if ...): the position of the first TRUE in flags (flags[i]
\* says whether the i-th element satisfies the condition), 0 if there is none.
FirstIdx(flags) ==
    IF \E i \in DOMAIN flags : flags[i]
    THEN CHOOSE i \in DOMAIN flags : flags[i] /\ \A j \in 1 .. i - 1 : ~flags[j]
    ELSE 0

\* del s[i]
RemoveAt(s, i) == SubSeq(s, 1, i - 1) \o SubSeq(s, i + 1, Len(s))

\* box = None: no box is given.
NoBox == 0

NoCall == [op |-> "", err |-> "", ids |-> <<>>, ret |-> <<>>, called |-> <<>>,
           n1 |-> NoUid, n2 |-> NoUid, box |-> NoBox, labels |-> <<>>, note |-> "",
           color |-> "", flag |-> FALSE, path |-> <<>>, out |-> [kind |-> "none"]]

Call(op, err) == [NoCall EXCEPT !.op = op, !.err = err]

(***************************** ClassesStore ********************************)
any_default(cls) == \E i \in 1 .. Len(cls) : cls[i].default

\* ClassesStore.__init__ from a list of class names.
ClassesStoreInit(names) ==
    [i \in 1 .. Len(names) |->
        [uid |-> i - 1, name |-> names[i],
         color |-> DEFAULT_COLORS[((i - 1) % Len(DEFAULT_COLORS)) + 1],
         default |-> (i = 1)]]

get_class_names(cls) == {cls[i].name : i \in 1 .. Len(cls)}

get_class_uids(cls) == {cls[i].uid : i \in 1 .. Len(cls)}

\* add_class: the new list and what the call raised ("" when it returned).
\* add_class without the check for a second default class.
add_class_two_defaults(cls, uid, name, color, is_default) ==
    LET new == [uid |-> uid, name |-> name, color |-> color, default |-> is_default]
    IN IF uid \in get_class_uids(cls) \/ name \in get_class_names(cls)
       THEN [classes |-> cls, err |-> "ValueError", ret |-> <<>>]
       ELSE [classes |-> Append(cls, new), err |-> "", ret |-> <<new>>]

add_class(cls, uid, name, color, is_default) ==
    LET new == [uid |-> uid, name |-> name, color |-> color, default |-> is_default]
        raised == [classes |-> cls, err |-> "ValueError", ret |-> <<>>]
    IN IF uid \in get_class_uids(cls) THEN raised
       ELSE IF name \in get_class_names(cls) THEN raised
       ELSE IF is_default /\ any_default(cls) THEN raised
       ELSE [classes |-> Append(cls, new), err |-> "", ret |-> <<Append(cls, new)[Len(cls) + 1]>>]

\* delete_class: the list is reassigned first; classes[0] of an empty list raises.
delete_class(cls, uid) ==
    LET kept == SelectSeq(cls, LAMBDA c : c.uid # uid)
    IN IF any_default(kept) THEN [classes |-> kept, err |-> ""]
       ELSE IF kept = <<>> THEN [classes |-> kept, err |-> "IndexError"]
       ELSE [classes |-> [kept EXCEPT ![1].default = TRUE], err |-> ""]

\* set_default_uid: next(...) raises StopIteration when nothing matches; the old
\* default is unset before the class with the given uid is looked up.
set_default_uid(cls, uid) ==
    LET d == FirstIdx([k \in 1 .. Len(cls) |-> cls[k].default])
    IN IF d = 0 THEN [classes |-> cls, err |-> "StopIteration"]
       ELSE LET unset == [cls EXCEPT ![d].default = FALSE]
                t == FirstIdx([k \in 1 .. Len(unset) |-> unset[k].uid = uid])
            IN IF t = 0 THEN [classes |-> unset, err |-> "StopIteration"]
               ELSE [classes |-> [unset EXCEPT ![t].default = TRUE], err |-> ""]

\* get_default_uid: NoUid stands for the StopIteration it raises without a default.
get_default_uid(cls) ==
    LET d == FirstIdx([k \in 1 .. Len(cls) |-> cls[k].default])
    IN IF d = 0 THEN NoUid ELSE cls[d].uid

get_uid(cls, name) == cls[FirstIdx([k \in 1 .. Len(cls) |-> cls[k].name = name])].uid

\* get_next_uid: max of the uids + 1, 0 for an empty store.
get_next_uid(cls) ==
    IF cls = <<>> THEN 0
    ELSE (CHOOSE u \in get_class_uids(cls) : \A v \in get_class_uids(cls) : v <= u) + 1

\* get_next_color
get_next_color(cls) == DEFAULT_COLORS[(Len(cls) % Len(DEFAULT_COLORS)) + 1]

\* f"Class {n}"
ClassN(n) == "Class " \o ToString(n)

\* get_next_class_name: "Class n" for the first n from len(classes) + 1 on that is
\* not the name of a class.
get_next_class_name(cls) ==
    LET free == {n \in Len(cls) + 1 .. 2 * Len(cls) + 1 : ClassN(n) \notin get_class_names(cls)}
    IN ClassN(CHOOSE n \in free : \A m \in free : n <= m)

\* The loop of change_name: the class with uid uids[i] gets names[i], in order;
\* next(...) raises StopIteration at the first uid that no class has.
RECURSIVE rename_loop(_, _, _, _)
rename_loop(cls, uids, names, i) ==
    IF i > Len(uids) \/ i > Len(names) THEN [classes |-> cls, err |-> ""]
    ELSE LET t == FirstIdx([k \in 1 .. Len(cls) |-> cls[k].uid = uids[i]])
         IN IF t = 0 THEN [classes |-> cls, err |-> "StopIteration"]
            ELSE rename_loop([cls EXCEPT ![t].name = names[i]], uids, names, i + 1)

\* change_name without the check for the name of a class of the store.
change_name_collide(cls, uids, names) ==
    IF Len(uids) # Len(names) THEN [classes |-> cls, err |-> "ValueError"]
    ELSE IF Cardinality(Range(names)) # Len(names)
    THEN [classes |-> cls, err |-> "ValueError"]
    ELSE rename_loop(cls, uids, names, 1)

\* change_name(uid, name) with lists; a single uid and name are lists of one.
change_name(cls, uids, names) ==
    IF Len(uids) # Len(names) THEN [classes |-> cls, err |-> "ValueError"]
    ELSE IF \E i \in 1 .. Len(names) : names[i] \in get_class_names(cls)
    THEN [classes |-> cls, err |-> "ValueError"]
    ELSE IF Cardinality(Range(names)) # Len(names)
    THEN [classes |-> cls, err |-> "ValueError"]
    ELSE rename_loop(cls, uids, names, 1)

\* change_color: next(...) raises StopIteration when no class has the uid.
change_color(cls, uid, color) ==
    LET t == FirstIdx([k \in 1 .. Len(cls) |-> cls[k].uid = uid])
    IN IF t = 0 THEN [classes |-> cls, err |-> "StopIteration"]
       ELSE [classes |-> [cls EXCEPT ![t].color = color], err |-> ""]

AddClass ==
    \E uid \in Uids, name \in ClassNames, color \in Colors, is_default \in BOOLEAN :
        LET r == add_class(classes, uid, name, color, is_default)
        IN /\ Len(classes) < MaxClasses
           /\ classes' = r.classes
           /\ last' = [Call("add_class", r.err) EXCEPT !.n1 = uid, !.note = name,
                                                        !.color = color, !.flag = is_default,
                                                        !.ret = r.ret]
           /\ trace' = <<>>
           /\ UNCHANGED rng
           /\ UNCHANGED <<images, current, img, created>>

DeleteClass ==
    \E uid \in Uids :
        LET r == delete_class(classes, uid)
        IN /\ classes' = r.classes
           /\ last' = [Call("delete_class", r.err) EXCEPT !.n1 = uid]
           /\ trace' = <<>>
           /\ UNCHANGED rng
           /\ UNCHANGED <<images, current, img, created>>

SetDefaultUid ==
    \E uid \in Uids :
        LET r == set_default_uid(classes, uid)
        IN /\ classes' = r.classes
           /\ last' = [Call("set_default_uid", r.err) EXCEPT !.n1 = uid]
           /\ trace' = <<>>
           /\ UNCHANGED rng
           /\ UNCHANGED <<images, current, img, created>>

\* The history keeps the lengths of the two lists, not the lists.
ChangeName ==
    \E uids \in SeqsUpTo(Uids, MaxRename), names \in SeqsUpTo(NewNames, MaxRename) :
        LET r == change_name(classes, uids, names)
        IN /\ classes' = r.classes
           /\ last' = [Call("change_name", r.err) EXCEPT !.n1 = Len(uids), !.n2 = Len(names)]
           /\ trace' = <<>>
           /\ UNCHANGED rng
           /\ UNCHANGED <<images, current, img, created>>

ChangeColor ==
    \E uid \in Uids, color \in Colors :
        LET r == change_color(classes, uid, color)
        IN /\ classes' = r.classes
           /\ last' = [Call("change_color", r.err) EXCEPT !.n1 = uid, !.color = color]
           /\ trace' = <<>>
           /\ UNCHANGED rng
           /\ UNCHANGED <<images, current, img, created>>

(***************************** SingleImage *********************************)
\* SingleImage.__init__: no boxes, not ready, not initialized.
NewImage == [boxes |-> <<>>, label_uids |-> <<>>, ready |-> FALSE, auto_intialized |-> FALSE]

\* What the detector can return for an image: a list of {boxn, label}.
Detections == SeqsUpTo([boxn : BoxVals, label : DetLabels], MaxDet)

\* What happens inside init's try block: Image.open raises, the model raises, or
\* the model returns a list of detections.
Outcomes ==
    {[kind |-> "open_error", res |-> <<>>], [kind |-> "model_error", res |-> <<>>]}
        \cup {[kind |-> "result", res |-> r] : r \in Detections}

\* labels_to_uids: a label that is a class name maps to that class's uid, any
\* other to get_default_uid(), which raises StopIteration when no class is default.
labels_to_uids(cls, labels) ==
    LET uid_of(l) == IF l \in get_class_names(cls) THEN get_uid(cls, l)
                     ELSE get_default_uid(cls)
        uids == [i \in 1 .. Len(labels) |-> uid_of(labels[i])]
    IN IF \E i \in 1 .. Len(labels) : uids[i] = NoUid
       THEN [uids |-> <<>>, err |-> "StopIteration"]
       ELSE [uids |-> uids, err |-> ""]

\* SingleImage.init(model): the image afterwards, whether the detector was
\* invoked, and how the call went ("noop", "ok", or the failure it printed).
\* self.boxes is assigned before labels_to_uids runs.
init_try(im, cls, model, outcome) ==
    IF model = "none" THEN [img |-> im, invoked |-> FALSE, note |-> "noop"]
    ELSE IF outcome.kind = "open_error"
         THEN [img |-> im, invoked |-> FALSE, note |-> "open_error"]
    ELSE IF outcome.kind = "model_error"
         THEN [img |-> im, invoked |-> TRUE, note |-> "model_error"]
    ELSE LET res == outcome.res
             boxes == [i \in 1 .. Len(res) |-> res[i].boxn]
             m == labels_to_uids(cls, [i \in 1 .. Len(res) |-> res[i].label])
         IN IF m.err # ""
            THEN [img |-> [im EXCEPT !.boxes = boxes], invoked |-> TRUE, note |-> "map_error"]
            ELSE [img |-> [im EXCEPT !.boxes = boxes, !.label_uids = m.uids,
                                     !.auto_intialized = TRUE],
                  invoked |-> TRUE, note |-> "ok"]

\* A mutant of init: the auto_intialized guard is gone.
init_unguarded(im, cls, model, outcome) == init_try(im, cls, model, outcome)

init(im, cls, model, outcome) ==
    IF im.auto_intialized THEN [img |-> im, invoked |-> FALSE, note |-> "noop"]
    ELSE init_try(im, cls, model, outcome)

\* The 1-based position a Python list of length n gives index idx, 0 if out of range.
PyIdx(n, idx) ==
    IF 0 <= idx /\ idx < n THEN idx + 1
    ELSE IF idx < 0 /\ -n <= idx THEN n + idx + 1
    ELSE 0

\* SingleImage.delete(idx): boxes.pop(idx), then label_uids.pop(idx).
delete(im, idx) ==
    LET b == PyIdx(Len(im.boxes), idx)
        l == PyIdx(Len(im.label_uids), idx)
    IN IF b = 0 THEN [img |-> im, err |-> "IndexError"]
       ELSE IF l = 0
            THEN [img |-> [im EXCEPT !.boxes = RemoveAt(im.boxes, b)], err |-> "IndexError"]
       ELSE [img |-> [im EXCEPT !.boxes = RemoveAt(im.boxes, b),
                                !.label_uids = RemoveAt(im.label_uids, l)],
             err |-> ""]

add_box(im, box, label_uid) ==
    [im EXCEPT !.boxes = Append(im.boxes, box), !.label_uids = Append(im.label_uids, label_uid)]

\* A mutant of change_label: the label at index 0 is rewritten, whatever idx is.
change_label_first(im, idx, label_uid) ==
    IF PyIdx(Len(im.label_uids), idx) = 0 THEN [img |-> im, err |-> "IndexError"]
    ELSE [img |-> [im EXCEPT !.label_uids[1] = label_uid], err |-> ""]

\* change_label: self.label_uids[idx] = label_uid
change_label(im, idx, label_uid) ==
    LET l == PyIdx(Len(im.label_uids), idx)
    IN IF l = 0 THEN [img |-> im, err |-> "IndexError"]
       ELSE [img |-> [im EXCEPT !.label_uids[l] = label_uid], err |-> ""]

\* delete_all_with_label: the boxes comprehension reads label_uids[i] for every
\* box, so it raises before anything is assigned when there are more boxes than labels.
delete_all_with_label(im, label_uid) ==
    IF Len(im.boxes) > Len(im.label_uids) THEN [img |-> im, err |-> "IndexError"]
    ELSE LET keep == {i \in 1 .. Len(im.boxes) : im.label_uids[i] # label_uid}
             idxs == SelectSeq([i \in 1 .. Len(im.boxes) |-> i], LAMBDA i : i \in keep)
         IN [img |-> [im EXCEPT !.boxes = [k \in 1 .. Len(idxs) |-> im.boxes[idxs[k]]],
                                !.label_uids = SelectSeq(im.label_uids,
                                                         LAMBDA l : l # label_uid)],
             err |-> ""]

\* A mutant of change_all_labels: only the first matching label is rewritten.
change_all_labels_first(im, old_label_uid, new_label_uid) ==
    LET f == FirstIdx([k \in 1 .. Len(im.label_uids) |-> im.label_uids[k] = old_label_uid])
    IN IF f = 0 THEN im ELSE [im EXCEPT !.label_uids[f] = new_label_uid]

change_all_labels(im, old_label_uid, new_label_uid) ==
    [im EXCEPT !.label_uids = [i \in 1 .. Len(im.label_uids) |->
                                  IF im.label_uids[i] = old_label_uid THEN new_label_uid
                                  ELSE im.label_uids[i]]]

\* A caller constructs a SingleImage of its own (the image under test).
Construct ==
    /\ created = {}
    /\ created' = {1}
    /\ last' = [Call("SingleImage", "") EXCEPT !.ids = <<1>>]
    /\ trace' = <<>>
    /\ UNCHANGED rng
    /\ UNCHANGED <<classes, images, current, img>>

ImgInit ==
    \E o \in created, model \in {"model", "none"} :
      \E outcome \in IF model = "model" /\ ~img[o].auto_intialized
                      THEN Outcomes ELSE {[kind |-> "model_error", res |-> <<>>]} :
        LET r == init(img[o], classes, model, outcome)
        IN /\ img' = [img EXCEPT ![o] = r.img]
           /\ last' = [Call("init", "") EXCEPT !.ids = <<o>>, !.note = r.note,
                          !.called = IF r.invoked THEN <<o>> ELSE <<>>]
           /\ trace' = <<>>
           /\ UNCHANGED rng
           /\ UNCHANGED <<classes, images, current, created>>

ImgAddBox ==
    \E o \in created, box \in BoxVals, label_uid \in Uids :
        /\ Len(img[o].boxes) < MaxBoxes
        /\ Len(img[o].label_uids) < MaxBoxes
        /\ img' = [img EXCEPT ![o] = add_box(img[o], box, label_uid)]
        /\ last' = [Call("add_box", "") EXCEPT !.ids = <<o>>, !.n1 = box, !.n2 = label_uid]
        /\ trace' = <<>>
        /\ UNCHANGED rng
        /\ UNCHANGED <<classes, images, current, created>>

ImgDelete ==
    \E o \in created, idx \in -1 .. MaxBoxes :
        LET r == delete(img[o], idx)
        IN /\ img' = [img EXCEPT ![o] = r.img]
           /\ last' = [Call("delete", r.err) EXCEPT !.ids = <<o>>, !.n1 = idx]
           /\ trace' = <<>>
           /\ UNCHANGED rng
           /\ UNCHANGED <<classes, images, current, created>>

ImgChangeLabel ==
    \E o \in created, idx \in -1 .. MaxBoxes, label_uid \in Uids :
        LET r == change_label(img[o], idx, label_uid)
        IN /\ img' = [img EXCEPT ![o] = r.img]
           /\ last' = [Call("change_label", r.err) EXCEPT !.ids = <<o>>, !.n1 = idx,
                                                          !.n2 = label_uid]
           /\ trace' = <<>>
           /\ UNCHANGED rng
           /\ UNCHANGED <<classes, images, current, created>>

ImgDeleteAllWithLabel ==
    \E o \in created, label_uid \in Uids :
        LET r == delete_all_with_label(img[o], label_uid)
        IN /\ img' = [img EXCEPT ![o] = r.img]
           /\ last' = [Call("delete_all_with_label", r.err) EXCEPT !.ids = <<o>>,
                                                                   !.n1 = label_uid]
           /\ trace' = <<>>
           /\ UNCHANGED rng
           /\ UNCHANGED <<classes, images, current, created>>

ImgChangeAllLabels ==
    \E o \in created, old_label_uid \in Uids, new_label_uid \in Uids :
        /\ img' = [img EXCEPT ![o] = change_all_labels(img[o], old_label_uid, new_label_uid)]
        /\ last' = [Call("change_all_labels", "") EXCEPT !.ids = <<o>>, !.n1 = old_label_uid,
                                                         !.n2 = new_label_uid]
        /\ trace' = <<>>
        /\ UNCHANGED rng
        /\ UNCHANGED <<classes, images, current, created>>

\* labels_to_uids of an image of this class store, for a list of labels; the image
\* itself is not read or changed.
LabelsToUids ==
    \E labels \in SeqsUpTo(DetLabels, 2) :
        LET r == labels_to_uids(classes, labels)
        IN /\ last' = [Call("labels_to_uids", r.err) EXCEPT !.labels = labels, !.ret = r.uids]
           /\ trace' = <<>>
           /\ UNCHANGED rng
           /\ UNCHANGED <<classes, images, current, img, created>>

(***************************** ImageStore **********************************)
\* ImageStore._detection_model: the store is constructed with a detector.
detection_model == "model"

\* What the detector does for the images of a store: it raises, or returns two
\* detections, one of a class name and one of a label that is no class name.
StoreOutcomes ==
    {[kind |-> "model_error", res |-> <<>>],
     [kind |-> "result", res |-> <<[boxn |-> 1, label |-> "class1"],
                                  [boxn |-> 2, label |-> "unknown"]>>]}

\* The outcomes to draw from for a call: all of them when the call reaches the
\* detector (runs init's try block), one when the outcome is never looked at.
OutcomesIf(reaches) ==
    IF reaches THEN StoreOutcomes
    ELSE {[kind |-> "model_error", res |-> <<>>]}

\* uuid4(): the identity of a newly constructed SingleImage, one no object has yet.
uuid4(crt) == CHOOSE o \in Ids \ crt : \A p \in Ids \ crt : o <= p

\* The loop of add_images: a str item constructs a SingleImage (which raises when
\* the file does not open, with the earlier items already appended).
RECURSIVE add_loop(_, _, _, _)
add_loop(items, imgs, crt, new_uuids) ==
    IF items = <<>> THEN [images |-> imgs, created |-> crt, new_uuids |-> new_uuids, err |-> ""]
    ELSE IF Head(items) = BadPath
         THEN [images |-> imgs, created |-> crt, new_uuids |-> new_uuids,
               err |-> "FileNotFoundError"]
    ELSE LET o == IF Head(items) = Path THEN uuid4(crt) ELSE Head(items)
         IN add_loop(Tail(items), Append(imgs, o), crt \cup {o}, Append(new_uuids, o))

\* A mutant of FirstNew: the last new image is made active.
FirstNew_last(new_uuids) == new_uuids[Len(new_uuids)]

\* new_uuids[0], the image add_images makes active in an empty store.
FirstNew(new_uuids) == new_uuids[1]

\* A mutant of add_images: every newly added image is initialized at once.
add_images_eager(imgs, cur, objs, crt, items, cls, model, outcome) ==
    LET l == add_loop(items, imgs, crt, <<>>)
        new == Range(l.new_uuids)
    IN IF l.err # ""
       THEN [images |-> l.images, current |-> cur, img |-> objs, created |-> l.created,
             ret |-> <<>>, err |-> l.err, called |-> <<>>, note |-> ""]
       ELSE [images |-> l.images,
             current |-> IF Len(imgs) = 0 /\ Len(l.new_uuids) > 0
                         THEN FirstNew(l.new_uuids) ELSE cur,
             img |-> [o \in Ids |-> IF o \in new
                                    THEN init(objs[o], cls, model, outcome).img
                                    ELSE objs[o]],
             created |-> l.created, ret |-> l.new_uuids, err |-> "",
             called |-> l.new_uuids, note |-> ""]

\* add_images: the store, the objects and the returned identities afterwards
\* (note: how the init of the newly active image went, "" when there was none).
add_images(imgs, cur, objs, crt, items, cls, model, outcome) ==
    LET starting_empty == Len(imgs) = 0
        l == add_loop(items, imgs, crt, <<>>)
    IN IF l.err # ""
       THEN [images |-> l.images, current |-> cur, img |-> objs, created |-> l.created,
             ret |-> <<>>, err |-> l.err, called |-> <<>>, note |-> ""]
       ELSE IF starting_empty /\ Len(l.new_uuids) > 0
       THEN LET first == FirstNew(l.new_uuids)
                r == init(objs[first], cls, model, outcome)
            IN [images |-> l.images, current |-> first,
                img |-> [objs EXCEPT ![first] = r.img], created |-> l.created,
                ret |-> l.new_uuids, err |-> "",
                called |-> IF r.invoked THEN <<first>> ELSE <<>>, note |-> r.note]
       ELSE [images |-> l.images, current |-> cur, img |-> objs, created |-> l.created,
             ret |-> l.new_uuids, err |-> "", called |-> <<>>, note |-> ""]

\* A mutant of NewIdx: the previous image is preferred to the next one.
NewIdx_prev(current_idx, n) == IF current_idx > 1 THEN current_idx - 1 ELSE current_idx + 1

\* A mutant of NewIdx: the active identity stays on the image being deleted.
NewIdx_same(current_idx, n) == current_idx

\* new_idx of delete_images, 1-based: the next position, the previous one for the last.
NewIdx(current_idx, n) == IF current_idx < n THEN current_idx + 1 ELSE current_idx - 1

\* A mutant of has_duplicates: the check for duplicate identities is gone.
has_duplicates_off(uuid) == FALSE

\* len(uuid) != len(set(uuid))
has_duplicates(uuid) == Len(uuid) # Cardinality(Range(uuid))

\* The active identity after the else branch of delete_images.
AfterFilter(kept, cur) == IF Len(kept) = 0 THEN None ELSE cur

\* A mutant of Remaining: the recursive call is given the whole list again.
Remaining_all(uuid, cur) == uuid

\* uuid = [u for u in uuid if u != self._current_uuid]
Remaining(uuid, cur) == SelectSeq(uuid, LAMBDA u : u # cur)

\* delete_images: the store after each step of the call, recursive calls
\* included (the active identity re-pointed, its image removed, ..., the rest
\* filtered out); the last entry is the store the call leaves, with what it raised.
\* Every entry has the list of identities of the call that made the step.
RECURSIVE delete_images(_, _, _)
delete_images(imgs, cur, uuid) ==
    IF \E i \in 1 .. Len(uuid) : uuid[i] \notin Range(imgs)
    THEN <<[images |-> imgs, current |-> cur, err |-> "ValueError", uuid |-> uuid]>>
    ELSE IF has_duplicates(uuid)
    THEN <<[images |-> imgs, current |-> cur, err |-> "ValueError", uuid |-> uuid]>>
    ELSE IF cur \in Range(uuid) /\ Len(imgs) > 1
    THEN LET current_idx == FirstIdx([k \in 1 .. Len(imgs) |-> imgs[k] = cur])
             rest == Remaining(uuid, cur)
             new_idx == NewIdx(current_idx, Len(imgs))
             pointed == [images |-> imgs, current |-> imgs[new_idx], err |-> "", uuid |-> uuid]
             removed == [pointed EXCEPT !.images = RemoveAt(imgs, current_idx)]
         IN <<pointed, removed>> \o delete_images(removed.images, removed.current, rest)
    ELSE LET kept == SelectSeq(imgs, LAMBDA o : o \notin Range(uuid))
         IN <<[images |-> kept, current |-> AfterFilter(kept, cur), err |-> "",
               uuid |-> uuid]>>

\* A mutant of activate_image: the activated image is initialized as jump_to does.
activate_image_init(imgs, cur, objs, uuid) ==
    IF uuid \notin Range(imgs)
    THEN [current |-> cur, img |-> objs, err |-> "ValueError", called |-> <<>>]
    ELSE LET r == init(objs[uuid], ClassesStoreInit(InitNames), "model",
                       [kind |-> "result", res |-> <<[boxn |-> 1, label |-> "class1"]>>])
         IN [current |-> uuid, img |-> [objs EXCEPT ![uuid] = r.img], err |-> "",
             called |-> IF r.invoked THEN <<uuid>> ELSE <<>>]

\* activate_image: only the active identity is set; no image is touched and the
\* detector is not called.
activate_image(imgs, cur, objs, uuid) ==
    IF uuid \notin Range(imgs)
    THEN [current |-> cur, img |-> objs, err |-> "ValueError", called |-> <<>>]
    ELSE [current |-> uuid, img |-> objs, err |-> "", called |-> <<>>]

\* jump_to: the active identity is set, and the image initialized if it is not yet
\* (note: how that init went, "" when there was none).
jump_to(imgs, cur, objs, uuid, cls, model, outcome) ==
    IF uuid \notin Range(imgs)
    THEN [current |-> cur, img |-> objs, err |-> "ValueError", called |-> <<>>, note |-> ""]
    ELSE IF ~objs[uuid].auto_intialized
    THEN LET r == init(objs[uuid], cls, model, outcome)
         IN [current |-> uuid, img |-> [objs EXCEPT ![uuid] = r.img], err |-> "",
             called |-> IF r.invoked THEN <<uuid>> ELSE <<>>, note |-> r.note]
    ELSE [current |-> uuid, img |-> objs, err |-> "", called |-> <<>>, note |-> ""]

\* A mutant of next_image: the following image is activated, not jumped to.
next_image_activate(imgs, cur, objs, cls, model, outcome) ==
    LET current_idx == FirstIdx([k \in 1 .. Len(imgs) |-> imgs[k] = cur])
    IN IF current_idx # 0 /\ current_idx < Len(imgs)
       THEN [current |-> imgs[current_idx + 1], img |-> objs, err |-> "",
             called |-> <<>>, note |-> ""]
       ELSE [current |-> cur, img |-> objs, err |-> "", called |-> <<>>, note |-> ""]

\* next: "next" is a TLA+ word, hence the name.
next_image(imgs, cur, objs, cls, model, outcome) ==
    IF cur = None /\ Len(imgs) > 0 THEN jump_to(imgs, cur, objs, imgs[1], cls, model, outcome)
    ELSE IF cur = None
    THEN [current |-> cur, img |-> objs, err |-> "", called |-> <<>>, note |-> ""]
    ELSE LET current_idx == FirstIdx([k \in 1 .. Len(imgs) |-> imgs[k] = cur])
         IN IF current_idx = 0
            THEN [current |-> cur, img |-> objs, err |-> "StopIteration", called |-> <<>>,
                  note |-> ""]
            ELSE IF current_idx < Len(imgs)
            THEN jump_to(imgs, cur, objs, imgs[current_idx + 1], cls, model, outcome)
            ELSE [current |-> cur, img |-> objs, err |-> "", called |-> <<>>, note |-> ""]

\* remove_label: the loop over the images, in store order; an image on which
\* delete_all_with_label raises ends it, with the earlier images already changed.
RECURSIVE remove_label(_, _, _, _)
remove_label(imgs, objs, label_uid, new_label_uid) ==
    IF imgs = <<>> THEN [img |-> objs, err |-> ""]
    ELSE LET o == Head(imgs)
         IN IF new_label_uid # NoUid
            THEN remove_label(Tail(imgs),
                              [objs EXCEPT ![o] = change_all_labels(objs[o], label_uid,
                                                                    new_label_uid)],
                              label_uid, new_label_uid)
            ELSE LET r == delete_all_with_label(objs[o], label_uid)
                 IN IF r.err # "" THEN [img |-> objs, err |-> r.err]
                    ELSE remove_label(Tail(imgs), [objs EXCEPT ![o] = r.img],
                                      label_uid, new_label_uid)

\* ImageStore.__init__ with a list of paths: add_images, then the first image is
\* made active and initialized (a second attempt when the first one failed).
ImageStoreInit(items, cls, model, outcome1, outcome2) ==
    LET a == add_images(<<>>, None, [o \in Ids |-> NewImage], {}, items, cls, model, outcome1)
        first == a.images[1]
        r == init(a.img[first], cls, model, outcome2)
    IN IF Len(a.images) > 0
       THEN [images |-> a.images, current |-> first,
             img |-> [a.img EXCEPT ![first] = r.img], created |-> a.created]
       ELSE [images |-> a.images, current |-> None, img |-> a.img, created |-> a.created]

\* __getitem__
getitem(imgs, uuid) ==
    IF uuid \notin Range(imgs) THEN [ret |-> <<>>, err |-> "ValueError"]
    ELSE [ret |-> <<uuid>>, err |-> ""]

\* The items of one add_images call: at most two paths, or one SingleImage
\* object that exists (in the store or not).
AddItems == SeqsUpTo({Path, BadPath}, 2) \cup {<<o>> : o \in created}

AddImages ==
    \E items \in AddItems, outcome \in OutcomesIf(images = <<>>) :
        LET r == add_images(images, current, img, created, items, classes, detection_model, outcome)
        IN /\ Len(images) + Len(items) <= MaxImages
           /\ Cardinality({i \in 1 .. Len(items) : items[i] = Path})
                  <= Cardinality(Ids \ created)
           /\ images' = r.images
           /\ current' = r.current
           /\ img' = r.img
           /\ created' = r.created
           /\ last' = [Call("add_images", r.err) EXCEPT !.ids = items, !.ret = r.ret,
                                                      !.called = r.called, !.note = r.note]
           /\ trace' = <<>>
           /\ UNCHANGED rng
           /\ UNCHANGED classes

\* The identities a caller passes: any identity, and None.
UuidArgs == Ids \cup {None}

\* The arguments of one delete_images call: lists of at most two identities, and
\* None (what Controller.delete_image passes when no image is active).
DeleteArgs == SeqsUpTo(Ids, 2) \cup {<<None>>}

DeleteImages ==
    \E uuid \in DeleteArgs :
        LET steps == delete_images(images, current, uuid)
            end == steps[Len(steps)]
        IN /\ images' = end.images
           /\ current' = end.current
           /\ last' = [Call("delete_images", end.err) EXCEPT !.ids = uuid]
           /\ trace' = steps
           /\ UNCHANGED rng
           /\ UNCHANGED <<classes, img, created>>

ActivateImage ==
    \E uuid \in UuidArgs :
        LET r == activate_image(images, current, img, uuid)
        IN /\ current' = r.current
           /\ img' = r.img
           /\ last' = [Call("activate_image", r.err) EXCEPT !.ids = <<uuid>>,
                                                          !.called = r.called]
           /\ trace' = <<>>
           /\ UNCHANGED rng
           /\ UNCHANGED <<classes, images, created>>

NextImage ==
    \E outcome \in OutcomesIf(images # <<>>) :
        LET r == next_image(images, current, img, classes, detection_model, outcome)
        IN /\ current' = r.current
           /\ img' = r.img
           /\ last' = [Call("next", r.err) EXCEPT !.called = r.called, !.note = r.note]
           /\ trace' = <<>>
           /\ UNCHANGED rng
           /\ UNCHANGED <<classes, images, created>>

JumpTo ==
    \E uuid \in UuidArgs : \E outcome \in OutcomesIf(uuid \in Range(images)) :
        LET r == jump_to(images, current, img, uuid, classes, detection_model, outcome)
        IN /\ current' = r.current
           /\ img' = r.img
           /\ last' = [Call("jump_to", r.err) EXCEPT !.ids = <<uuid>>, !.called = r.called,
                                              !.note = r.note]
           /\ trace' = <<>>
           /\ UNCHANGED rng
           /\ UNCHANGED <<classes, images, created>>

RemoveLabel ==
    \E label_uid \in Uids, new_label_uid \in Uids \cup {NoUid} :
        LET r == remove_label(images, img, label_uid, new_label_uid)
        IN /\ img' = r.img
           /\ last' = [Call("remove_label", r.err) EXCEPT !.n1 = label_uid,
                                                        !.n2 = new_label_uid]
           /\ trace' = <<>>
           /\ UNCHANGED rng
           /\ UNCHANGED <<classes, images, current, created>>

GetItem ==
    \E uuid \in UuidArgs :
        LET r == getitem(images, uuid)
        IN /\ last' = [Call("getitem", r.err) EXCEPT !.ids = <<uuid>>, !.ret = r.ret]
           /\ trace' = <<>>
           /\ UNCHANGED rng
           /\ UNCHANGED <<classes, images, current, img, created>>

(***************** ImageStore.change_image_annotation **********************)
\* SingleImage.change_box(idx, box): the box at idx is replaced.
change_box(im, idx, box) ==
    LET b == PyIdx(Len(im.boxes), idx)
    IN IF b = 0 THEN [img |-> im, err |-> "IndexError"]
       ELSE [img |-> [im EXCEPT !.boxes[b] = box], err |-> ""]

\* A mutant of change_image_annotation: a call with neither a box nor a label
\* returns silently, and one with an unknown identity does too.
change_image_annotation_silent(imgs, objs, uuid, idx, box, label_uid) ==
    [img |-> objs, err |-> ""]

\* change_image_annotation(uuid, idx, box, label_uid): fails if the identity is
\* unknown, fails if neither a box nor a label uid is given, otherwise applies the
\* given update(s) at idx on that image, the box first.
change_image_annotation(imgs, objs, uuid, idx, box, label_uid) ==
    IF uuid \notin Range(imgs) THEN [img |-> objs, err |-> "ValueError"]
    ELSE IF box = NoBox /\ label_uid = NoUid THEN [img |-> objs, err |-> "Warning"]
    ELSE LET b == IF box # NoBox THEN change_box(objs[uuid], idx, box)
                  ELSE [img |-> objs[uuid], err |-> ""]
             l == IF label_uid # NoUid THEN change_label(b.img, idx, label_uid)
                  ELSE [img |-> b.img, err |-> ""]
         IN IF b.err # "" THEN [img |-> objs, err |-> b.err]
            ELSE [img |-> [objs EXCEPT ![uuid] = l.img], err |-> l.err]

\* The arguments of a change_image_annotation call: any identity or None, an index
\* up to one past the longest list, a box or none, a class uid or none.
ChangeImageAnnotation ==
    \E uuid \in UuidArgs, idx \in 0 .. MaxBoxes, box \in BoxVals \cup {NoBox},
       label_uid \in get_class_uids(classes) \cup {NoUid} :
        LET r == change_image_annotation(images, img, uuid, idx, box, label_uid)
        IN /\ img' = r.img
           /\ last' = [Call("change_image_annotation", r.err)
                          EXCEPT !.ids = <<uuid>>, !.n1 = idx, !.n2 = label_uid, !.box = box]
           /\ trace' = <<>>
           /\ UNCHANGED rng
           /\ UNCHANGED <<classes, images, current, created>>

(***************************** Controller **********************************)
\* SingleImage.mark_ready
mark_ready(im) == [im EXCEPT !.ready = TRUE]

\* ImageStore.active_image: the active image, None when there is none.
active_image(imgs, cur) == IF cur # None THEN getitem(imgs, cur) ELSE [ret |-> <<>>, err |-> ""]

\* Controller.mark_ready: it calls activate_image with the active identity.
ctl_mark_ready(imgs, cur, objs) == activate_image(imgs, cur, objs, cur)

\* A caller marks the active image ready on the image itself
\* (controller.current().mark_ready()).
ImgMarkReady ==
    /\ active_image(images, current).ret # <<>>
    /\ img' = [img EXCEPT ![current] = mark_ready(img[current])]
    /\ last' = [Call("mark_ready", "") EXCEPT !.ids = <<current>>]
    /\ trace' = <<>>
    /\ UNCHANGED rng
    /\ UNCHANGED <<classes, images, current, created>>

CtlMarkReady ==
    LET r == ctl_mark_ready(images, current, img)
    IN /\ current' = r.current
       /\ img' = r.img
       /\ last' = [Call("Controller.mark_ready", r.err) EXCEPT !.ids = <<current>>]
       /\ trace' = <<>>
       /\ UNCHANGED rng
       /\ UNCHANGED <<classes, images, created>>

\* Controller.add_box: add_box on the active image; with no active image the
\* attribute lookup on None raises.
ctl_add_box(imgs, cur, objs, box, label_uid) ==
    IF active_image(imgs, cur).ret = <<>> THEN [img |-> objs, err |-> "AttributeError"]
    ELSE [img |-> [objs EXCEPT ![cur] = add_box(objs[cur], box, label_uid)], err |-> ""]

\* A mutant of ctl_delete_class: the class is deleted, its labels are left.
ctl_delete_class_only(cls, imgs, objs, uid, change_classes_uid) ==
    LET d == delete_class(cls, uid)
    IN [classes |-> d.classes, img |-> objs, err |-> d.err]

\* Controller.delete_class: remove_label, then delete_class of the class store
\* (not reached when remove_label raises).
ctl_delete_class(cls, imgs, objs, uid, change_classes_uid) ==
    LET r == remove_label(imgs, objs, uid, change_classes_uid)
        d == delete_class(cls, uid)
    IN IF r.err # "" THEN [classes |-> cls, img |-> r.img, err |-> r.err]
       ELSE [classes |-> d.classes, img |-> r.img, err |-> d.err]

\* Controller.add_new_init_class
add_new_init_class(cls) ==
    add_class(cls, get_next_uid(cls), get_next_class_name(cls), get_next_color(cls), FALSE)

\* The UI adds a box with the uid of one of the classes it lists.
CtlAddBox ==
    \E box \in BoxVals, label_uid \in get_class_uids(classes) :
        LET r == ctl_add_box(images, current, img, box, label_uid)
        IN /\ current # None => Len(img[current].boxes) < MaxBoxes
           /\ img' = r.img
           /\ last' = [Call("Controller.add_box", r.err) EXCEPT !.box = box, !.n2 = label_uid]
           /\ trace' = <<>>
           /\ UNCHANGED rng
           /\ UNCHANGED <<classes, images, current, created>>

\* ClassesContainer.can_delete: not the last class and not the default class.
can_delete(cls, uid) == Len(cls) # 1 /\ get_default_uid(cls) # uid

\* The class deletion dialog: the user deletes a class that can_delete allows, and
\* its boxes are deleted or given to one of the other classes.
CtlDeleteClass ==
    \E uid \in get_class_uids(classes) :
      \E change_classes_uid \in (get_class_uids(classes) \ {uid}) \cup {NoUid} :
        LET r == ctl_delete_class(classes, images, img, uid, change_classes_uid)
        IN /\ can_delete(classes, uid)
           /\ classes' = r.classes
           /\ img' = r.img
           /\ last' = [Call("Controller.delete_class", r.err)
                          EXCEPT !.n1 = uid, !.n2 = change_classes_uid]
           /\ trace' = <<>>
           /\ UNCHANGED rng
           /\ UNCHANGED <<images, current, created>>

\* Controller.delete_class called with the uid of a class of the store and, as
\* the class to give its boxes to, the uid of a class of the store or None.
CtlDeleteClassCall ==
    \E uid \in get_class_uids(classes) :
      \E change_classes_uid \in get_class_uids(classes) \cup {NoUid} :
        LET r == ctl_delete_class(classes, images, img, uid, change_classes_uid)
        IN /\ classes' = r.classes
           /\ img' = r.img
           /\ last' = [Call("Controller.delete_class", r.err)
                          EXCEPT !.n1 = uid, !.n2 = change_classes_uid]
           /\ trace' = <<>>
           /\ UNCHANGED rng
           /\ UNCHANGED <<images, current, created>>

\* The default-class radio button: set_default_class_uid with the uid of a class.
CtlSetDefaultClassUid ==
    \E uid \in get_class_uids(classes) :
        LET r == set_default_uid(classes, uid)
        IN /\ classes' = r.classes
           /\ last' = [Call("Controller.set_default_class_uid", r.err) EXCEPT !.n1 = uid]
           /\ trace' = <<>>
           /\ UNCHANGED rng
           /\ UNCHANGED <<images, current, img, created>>

CtlAddNewInitClass ==
    LET r == add_new_init_class(classes)
    IN /\ Len(classes) < MaxClasses
       /\ get_next_uid(classes) <= MaxUid
       /\ classes' = r.classes
       /\ last' = [Call("Controller.add_new_init_class", r.err)
                      EXCEPT !.n1 = get_next_uid(classes),
                             !.note = get_next_class_name(classes)]
       /\ trace' = <<>>
       /\ UNCHANGED rng
       /\ UNCHANGED <<images, current, img, created>>

(***************************** export *************************************)
\* random: the generator is one module-level state. A small linear congruential
\* generator stands for the Mersenne Twister: seed(a) sets the state from a, every
\* draw advances it.
RngMod == 16
RngStart == 0
Seeds == {42, 43}

rand_next(s) == (5 * s + 3) % RngMod

\* random.seed(a)
seed(a) == a % RngMod

\* _randbelow(k): the state advances, the draw is in 0 .. k - 1.
randbelow(k, s) == [val |-> rand_next(s) % k, rng |-> rand_next(s)]

\* random.shuffle(x): for i in reversed(range(1, len(x))): j = randbelow(i + 1);
\* x[i], x[j] = x[j], x[i]   (positions from 1 here).
RECURSIVE shuffle_loop(_, _, _)
shuffle_loop(x, i, s) ==
    IF i < 2 THEN [data |-> x, rng |-> s]
    ELSE LET r == randbelow(i, s)
             j == r.val + 1
         IN shuffle_loop([x EXCEPT ![i] = x[j], ![j] = x[i]], i - 1, r.rng)

shuffle(x, s) == shuffle_loop(x, Len(x), s)

\* Python floats are binary floating point numbers, rounded to the nearest
\* (ties to even) after every operation. The model keeps that arithmetic with a
\* significand of MantBits bits (binary64 has 53; tenths have a binary expansion
\* of period 4, so 9 bits round them to the same side as 53 do). A float is the
\* integer v that stands for v / 2^FloatScale.
MantBits == 9
FloatScale == MantBits + 4

RECURSIVE Pow2(_)
Pow2(n) == IF n = 0 THEN 1 ELSE 2 * Pow2(n - 1)

RECURSIVE BitLen(_)
BitLen(v) == IF v = 0 THEN 0 ELSE 1 + BitLen(v \div 2)

\* a / b rounded to the nearest integer, ties to even.
RoundDiv(a, b) ==
    LET q == a \div b
        r == a % b
    IN IF 2 * r < b THEN q
       ELSE IF 2 * r > b THEN q + 1
       ELSE IF q % 2 = 0 THEN q ELSE q + 1

\* v rounded to MantBits significant bits.
RoundSig(v) ==
    IF BitLen(v) <= MantBits THEN v
    ELSE RoundDiv(v, Pow2(BitLen(v) - MantBits)) * Pow2(BitLen(v) - MantBits)

\* The float nearest to the fraction k / den (a literal such as 0.8 is 8 / 10).
float_of(k, den) ==
    IF k = 0 THEN 0
    ELSE LET j == CHOOSE e \in 0 .. FloatScale :
                     /\ k * Pow2(e) >= den * Pow2(MantBits - 1)
                     /\ \A d \in 0 .. e - 1 : k * Pow2(d) < den * Pow2(MantBits - 1)
         IN RoundDiv(k * Pow2(j), den) * Pow2(FloatScale - j)

float_one == Pow2(FloatScale)

\* a - b and n * x in floats; int(v) truncates.
float_sub(a, b) == RoundSig(a - b)
float_mul(n, x) == RoundSig(n * x)
float_int(v) == v \div float_one

\* test_split is given in tenths: test_split = k / SplitDen.
SplitDen == 10

\* 1 - test_split, for every test_split in tenths.
train_share == [k \in 0 .. SplitDen |-> float_sub(float_one, float_of(k, SplitDen))]

\* int(len(data) * (1 - test_split))
train_count(n, k) == float_int(float_mul(n, train_share[k]))

\* export, lines 40-44, without random.seed(seed): the shuffle draws from the
\* state the generator is in.
train_test_unseeded(data, k, a, s) ==
    LET sh == shuffle(data, s)
        tc == train_count(Len(data), k)
    IN [order |-> sh.data, rng |-> sh.rng,
        train |-> SubSeq(sh.data, 1, tc),
        test |-> SubSeq(sh.data, tc + 1, Len(data))]

\* export, lines 40-44: seed, shuffle, slice. s is the state of the generator
\* before the call.
train_test(data, k, a, s) ==
    LET sh == shuffle(data, seed(a))
        tc == train_count(Len(data), k)
    IN [order |-> sh.data, rng |-> sh.rng,
        train |-> SubSeq(sh.data, 1, tc),
        test |-> SubSeq(sh.data, tc + 1, Len(data))]

\* The split of a list of n eligible images, for every n up to MaxData.
TrainTest ==
    \E n \in 0 .. MaxData, k \in 0 .. SplitDen, a \in Seeds :
        LET r == train_test([i \in 1 .. n |-> i], k, a, rng)
        IN /\ last' = [Call("train_test", "") EXCEPT !.ids = r.order, !.ret = r.train,
                                                     !.called = r.test, !.n1 = k, !.n2 = a]
           /\ rng' = r.rng
           /\ trace' = <<>>
           /\ UNCHANGED <<classes, images, current, img, created>>

\* A path is its stem and its extension; path.endswith(ext) looks at the latter.
ExportPaths == {<<"out", ".csv">>, <<"out", ".json">>}
endswith(path, ext) == path[2] = ext

\* The format strings export is given, and format.lower() on them.
Formats == {"CSV", "json", "yolo", "xml"}
format_lower(format) == IF format = "CSV" THEN "csv" ELSE format

\* The test_split export is given, in tenths.
ExportSplits == {5}

\* get_name(uid): the position of the first class with that uid, 0 where next(...)
\* raises StopIteration.
name_idx(cls, uid) == FirstIdx([c \in 1 .. Len(cls) |-> cls[c].uid = uid])

\* zip(annotation.boxes, annotation.label_uids) stops at the shorter list.
zip_len(im) == IF Len(im.boxes) < Len(im.label_uids) THEN Len(im.boxes) ELSE Len(im.label_uids)

\* The (image, box, label_uid) triples that process(data, file, split) goes
\* through, in order.
RECURSIVE csv_items(_, _, _, _)
csv_items(objs, data, split, i) ==
    IF i > Len(data) THEN <<>>
    ELSE [j \in 1 .. zip_len(objs[data[i]]) |->
             [image |-> data[i], box |-> objs[data[i]].boxes[j],
              uid |-> objs[data[i]].label_uids[j], split |-> split]]
         \o csv_items(objs, data, split, i + 1)

\* No file was written.
NoOut == [kind |-> "none"]

\* _export_csv without the check of the path.
export_csv_any_path(path, train, test, cls, objs) ==
    LET items == csv_items(objs, train, "train", 1) \o csv_items(objs, test, "test", 1)
        bad == FirstIdx([j \in 1 .. Len(items) |-> name_idx(cls, items[j].uid) = 0])
        written == IF bad = 0 THEN items ELSE SubSeq(items, 1, bad - 1)
    IN [err |-> IF bad = 0 THEN "" ELSE "StopIteration",
        out |-> [kind |-> "csv", path |-> path,
                 rows |-> [j \in 1 .. Len(written) |->
                             [image |-> written[j].image, box |-> written[j].box,
                              label |-> cls[name_idx(cls, written[j].uid)].name,
                              split |-> written[j].split]]]]

\* _export_csv: the path is checked, the file is opened and the header written,
\* then one row per (box, label) pair of the train and of the test images; a
\* label uid that no class has raises StopIteration after the rows before it.
export_csv(path, train, test, cls, objs) ==
    IF ~endswith(path, ".csv") THEN [err |-> "ValueError", out |-> NoOut]
    ELSE LET items == csv_items(objs, train, "train", 1) \o csv_items(objs, test, "test", 1)
             bad == FirstIdx([j \in 1 .. Len(items) |-> name_idx(cls, items[j].uid) = 0])
             written == IF bad = 0 THEN items ELSE SubSeq(items, 1, bad - 1)
         IN [err |-> IF bad = 0 THEN "" ELSE "StopIteration",
             out |-> [kind |-> "csv", path |-> path,
                      rows |-> [j \in 1 .. Len(written) |->
                                  [image |-> written[j].image, box |-> written[j].box,
                                   label |-> cls[name_idx(cls, written[j].uid)].name,
                                   split |-> written[j].split]]]]

\* SingleImage.to_dict: the labels are names; uids_to_labels raises StopIteration
\* for a uid that no class has.
to_dict_raises(cls, im) ==
    \E j \in 1 .. Len(im.label_uids) : name_idx(cls, im.label_uids[j]) = 0

to_dict(cls, objs, o) ==
    [image |-> o, boxes |-> objs[o].boxes,
     labels |-> [j \in 1 .. Len(objs[o].label_uids) |->
                    cls[name_idx(cls, objs[o].label_uids[j])].name],
     ready |-> objs[o].ready]

\* _export_json: the path is checked and the dictionaries are built before the
\* file is opened.
export_json(path, train, test, cls, objs) ==
    IF ~endswith(path, ".json") THEN [err |-> "ValueError", out |-> NoOut]
    ELSE IF \E i \in 1 .. Len(train) : to_dict_raises(cls, objs[train[i]])
    THEN [err |-> "StopIteration", out |-> NoOut]
    ELSE IF \E i \in 1 .. Len(test) : to_dict_raises(cls, objs[test[i]])
    THEN [err |-> "StopIteration", out |-> NoOut]
    ELSE [err |-> "",
          out |-> [kind |-> "json", path |-> path, class_mapping |-> cls,
                   train |-> [i \in 1 .. Len(train) |-> to_dict(cls, objs, train[i])],
                   test |-> [i \in 1 .. Len(test) |-> to_dict(cls, objs, test[i])]]]

\* _process_yolo for one image, with the uid of the class as class number.
yolo_one_uid(cls, objs, o) ==
    LET im == objs[o]
        bad == FirstIdx([j \in 1 .. zip_len(im) |-> name_idx(cls, im.label_uids[j]) = 0])
        n == IF bad = 0 THEN zip_len(im) ELSE bad - 1
    IN [image |-> o, raised |-> bad # 0,
        lines |-> [j \in 1 .. n |-> [label_idx |-> im.label_uids[j], box |-> im.boxes[j]]]]

\* _process_yolo for one image: the image file i.jpg and the label file i.txt with
\* the lines written before a label uid that no class has.
yolo_one(cls, objs, o) ==
    LET im == objs[o]
        bad == FirstIdx([j \in 1 .. zip_len(im) |-> name_idx(cls, im.label_uids[j]) = 0])
        n == IF bad = 0 THEN zip_len(im) ELSE bad - 1
    IN [image |-> o, raised |-> bad # 0,
        lines |-> [j \in 1 .. n |->
                      [label_idx |-> FirstIdx([c \in 1 .. Len(cls) |->
                                        cls[c].name = cls[name_idx(cls, im.label_uids[j])].name]) - 1,
                       box |-> im.boxes[j]]]]

\* _process_yolo: the files of the images up to the first one that raises.
yolo_split(cls, objs, data) ==
    LET files == [i \in 1 .. Len(data) |-> yolo_one(cls, objs, data[i])]
        bad == FirstIdx([i \in 1 .. Len(data) |-> files[i].raised])
    IN [raised |-> bad # 0,
        files |-> IF bad = 0 THEN files ELSE SubSeq(files, 1, bad)]

\* _export_yolo: the directories, the train files, the test files, data.yaml.
export_yolo(path, train, test, cls, objs) ==
    LET tr == yolo_split(cls, objs, train)
        te == yolo_split(cls, objs, test)
    IN IF tr.raised
       THEN [err |-> "StopIteration",
             out |-> [kind |-> "yolo", path |-> path, train |-> tr.files, test |-> <<>>,
                      yaml |-> <<>>]]
       ELSE IF te.raised
       THEN [err |-> "StopIteration",
             out |-> [kind |-> "yolo", path |-> path, train |-> tr.files, test |-> te.files,
                      yaml |-> <<>>]]
       ELSE [err |-> "",
             out |-> [kind |-> "yolo", path |-> path, train |-> tr.files, test |-> te.files,
                      yaml |-> <<[nc |-> Len(cls),
                                  names |-> [c \in 1 .. Len(cls) |-> cls[c].name]]>>]]

\* The images export takes, ignoring only_ready.
eligible_all(imgs, objs, only_ready) == imgs

\* data = [a for a in image_store if not only_ready or a.ready]
eligible(imgs, objs, only_ready) ==
    SelectSeq(imgs, LAMBDA o : ~only_ready \/ objs[o].ready)

\* The store's list after a shuffle that works on the store's list itself.
store_order_shared(imgs, data) == IF Len(data) = Len(imgs) THEN data ELSE imgs

\* The store's list after random.shuffle(data): data is the list the comprehension
\* of line 38 built, the store's own list is not touched.
store_order(imgs, data) == imgs

\* export: what it raised, the file it wrote, the split it made, the state it left
\* the generator in and the order it left the store in. s is the state of the
\* generator before the call.
export(path, format, imgs, objs, cls, only_ready, k, a, s) ==
    LET tt == train_test(eligible(imgs, objs, only_ready), k, a, s)
        r == CASE format_lower(format) = "csv" -> export_csv(path, tt.train, tt.test, cls, objs)
               [] format_lower(format) = "json" -> export_json(path, tt.train, tt.test, cls, objs)
               [] format_lower(format) = "yolo" -> export_yolo(path, tt.train, tt.test, cls, objs)
               [] OTHER -> [err |-> "ValueError", out |-> NoOut]
    IN [err |-> r.err, out |-> r.out, train |-> tt.train, test |-> tt.test, rng |-> tt.rng,
        images |-> store_order(imgs, tt.order)]

Export ==
    \E path \in ExportPaths, format \in Formats, only_ready \in BOOLEAN,
       k \in ExportSplits, a \in Seeds :
        LET r == export(path, format, images, img, classes, only_ready, k, a, rng)
        IN /\ last' = [Call("export", r.err) EXCEPT !.path = path, !.note = format,
                                                    !.flag = only_ready, !.n1 = k, !.n2 = a,
                                                    !.ret = r.train, !.called = r.test,
                                                    !.out = r.out]
           /\ rng' = r.rng
           /\ images' = r.images
           /\ trace' = <<>>
           /\ UNCHANGED <<classes, current, img, created>>

(***************************** import *************************************)
\* What `for a in data` goes through after json.load: the elements of a list,
\* the keys of an object.
json_iter(doc) ==
    IF doc.kind = "json" THEN <<"class_mapping", "train", "test">> ELSE doc.items

\* a["file_path"] is evaluated on a key of the object, which is a str.
item_raises(doc) == doc.kind = "json"

\* AnnotationStore.import_json reading the document doc at path: the path is
\* checked, one SingleImage is constructed per item, and the images are added to
\* the store (append) or a new ImageStore is constructed with them.
import_json(path, doc, append, imgs, cur, objs, crt, cls, model, outcome1, outcome2) ==
    LET items == json_iter(doc)
        new == [i \in 1 .. Len(items) |-> Path]
        fresh == add_images(<<>>, None, objs, crt, new, cls, model, outcome1)
        first == fresh.images[1]
        r == init(fresh.img[first], cls, model, outcome2)
    IN IF ~endswith(path, ".json")
       THEN [images |-> imgs, current |-> cur, img |-> objs, created |-> crt,
             ret |-> <<>>, err |-> "ValueError"]
       ELSE IF Len(items) > 0 /\ item_raises(doc)
       THEN [images |-> imgs, current |-> cur, img |-> objs, created |-> crt,
             ret |-> <<>>, err |-> "TypeError"]
       ELSE IF append
       THEN LET a == add_images(imgs, cur, objs, crt, new, cls, model, outcome1)
            IN [images |-> a.images, current |-> a.current, img |-> a.img,
                created |-> a.created, ret |-> a.ret, err |-> a.err]
       ELSE IF Len(items) > 0
       THEN [images |-> fresh.images, current |-> first,
             img |-> [fresh.img EXCEPT ![first] = r.img], created |-> fresh.created,
             ret |-> fresh.ret, err |-> ""]
       ELSE [images |-> <<>>, current |-> None, img |-> objs, created |-> crt,
             ret |-> <<>>, err |-> ""]

\* import_json of the file that the export before it wrote (n1: the number of
\* images in the file).
ImportJson ==
    \E append \in BOOLEAN, outcome1 \in StoreOutcomes, outcome2 \in StoreOutcomes :
        LET r == import_json(last.out.path, last.out, append, images, current, img, created,
                             classes, detection_model, outcome1, outcome2)
        IN /\ last.op = "export"
           /\ last.out.kind = "json"
           /\ images' = r.images
           /\ current' = r.current
           /\ img' = r.img
           /\ created' = r.created
           /\ last' = [Call("import_json", r.err)
                          EXCEPT !.path = last.out.path, !.flag = append, !.ret = r.ret,
                                 !.n1 = Len(last.out.train) + Len(last.out.test)]
           /\ trace' = <<>>
           /\ UNCHANGED rng
           /\ UNCHANGED classes

(***************************** initial state *******************************)
\* ClassesStore(InitNames) and ImageStore(class_store, detection_model) with no images.
Init ==
    /\ classes = ClassesStoreInit(InitNames)
    /\ images = <<>>
    /\ current = None
    /\ img = [o \in Ids |-> NewImage]
    /\ created = {}
    /\ last = NoCall
    /\ trace = <<>>
    /\ rng = RngStart

(***************************** specifications ******************************)
NextClasses == AddClass \/ DeleteClass \/ SetDefaultUid \/ LabelsToUids

SpecClasses == Init /\ [][NextClasses]_vars

\* The class store under every call that changes its classes.
NextNames == AddClass \/ DeleteClass \/ SetDefaultUid \/ ChangeName \/ ChangeColor

SpecNames == Init /\ [][NextNames]_vars

\* change_name on the stores that deleting and re-defaulting leave.
NextRename == ChangeName \/ DeleteClass \/ SetDefaultUid

SpecRename == Init /\ [][NextRename]_vars

\* One SingleImage and the calls a caller makes on it, with a class store whose
\* default class changes.
NextSingle ==
    \/ Construct
    \/ ImgInit
    \/ ImgAddBox
    \/ ImgDelete
    \/ ImgChangeLabel
    \/ ImgDeleteAllWithLabel
    \/ ImgChangeAllLabels
    \/ SetDefaultUid

SpecImage == Init /\ [][NextSingle]_vars

\* The ImageStore and the calls that add, delete and navigate its images.
NextStore ==
    \/ AddImages
    \/ DeleteImages
    \/ ActivateImage
    \/ NextImage
    \/ JumpTo
    \/ GetItem

SpecStore == Init /\ [][NextStore]_vars

\* ImageStore(class_store, detection_model, [path, path]): a store built with two
\* images, the first one active and initialized as far as the detector allowed.
InitTwo ==
    /\ classes = ClassesStoreInit(InitNames)
    /\ \E outcome1 \in StoreOutcomes, outcome2 \in StoreOutcomes :
          LET st == ImageStoreInit(<<Path, Path>>, classes, detection_model,
                                   outcome1, outcome2)
          IN /\ images = st.images
             /\ current = st.current
             /\ img = st.img
             /\ created = st.created
    /\ last = NoCall
    /\ trace = <<>>
    /\ rng = RngStart

\* The labels of a store's images: navigation initializes the images, remove_label
\* rewrites or removes labels, and the class store's default changes.
NextLabels ==
    \/ NextImage
    \/ JumpTo
    \/ RemoveLabel
    \/ SetDefaultUid

SpecLabels == InitTwo /\ [][NextLabels]_vars

\* The annotations of a store's images: a store built with two images, navigation
\* that initializes them, and change_image_annotation.
NextAnnotate ==
    \/ JumpTo
    \/ ChangeImageAnnotation

SpecAnnotate == InitTwo /\ [][NextAnnotate]_vars

\* The Controller over its two stores: the calls the UI makes.
NextController ==
    \/ AddImages
    \/ NextImage
    \/ ImgMarkReady
    \/ CtlMarkReady

SpecController == Init /\ [][NextController]_vars

\* The uids of the classes and of the labels: a store built with two images, boxes
\* added by the user, classes deleted, made default and added in the classes dialog.
NextUids ==
    \/ NextImage
    \/ CtlAddBox
    \/ CtlDeleteClass
    \/ CtlSetDefaultClassUid
    \/ CtlAddNewInitClass

SpecUids == InitTwo /\ [][NextUids]_vars

\* export on a store built with two images, which navigation initializes and
\* mark_ready marks, with a class store whose default class changes.
NextExport ==
    \/ NextImage
    \/ ImgMarkReady
    \/ SetDefaultUid
    \/ Export

SpecExport == InitTwo /\ [][NextExport]_vars

\* export after classes have been deleted in the classes dialog: the positions of
\* the classes differ from their uids.
NextYolo ==
    \/ NextImage
    \/ CtlSetDefaultClassUid
    \/ CtlDeleteClass
    \/ Export

SpecYolo == InitTwo /\ [][NextYolo]_vars

\* import_json of the files export writes for a store built with two images.
NextImport ==
    \/ NextImage
    \/ Export
    \/ ImportJson

SpecImport == InitTwo /\ [][NextImport]_vars

\* Navigation over a store built with two images while the user adds boxes to the
\* active image.
NextNavigate ==
    \/ NextImage
    \/ JumpTo
    \/ CtlAddBox

SpecNavigate == InitTwo /\ [][NextNavigate]_vars

\* The labels of the images under Controller calls whose uid arguments are uids of
\* classes of the store.
NextIntegrity ==
    \/ NextImage
    \/ CtlAddBox
    \/ CtlDeleteClassCall

SpecIntegrity == InitTwo /\ [][NextIntegrity]_vars

\* The train/test split of export on lists of every length.
NextSplit == TrainTest

SpecSplit == Init /\ [][NextSplit]_vars

(***************************** claims **************************************)
\* C2: while the ClassesStore holds at least one class, exactly one class has
\* default = true, after any add_class, delete_class and set_default_uid calls.
C2_ExactlyOneDefault ==
    Len(classes) > 0 => Cardinality({i \in 1 .. Len(classes) : classes[i].default}) = 1

C2_Witness ==
    /\ last.op = "set_default_uid"
    /\ last.err = "StopIteration"
    /\ Len(classes) > 0
    /\ ~any_default(classes)

\* C1: the active identity is None if and only if the store holds no images.
C1_ActiveIffNonEmpty == (current = None) <=> (Len(images) = 0)

\* C3: whenever the active identity is not None it is the identity of an image
\* in the store, after every call and at each step of a delete_images call.
C3_ActiveInStore ==
    /\ current # None => current \in Range(images)
    /\ \A i \in 1 .. Len(trace) :
          trace[i].current # None => trace[i].current \in Range(trace[i].images)

\* A delete_images call that deleted the active image and recursed.
C3_Witness ==
    /\ last.op = "delete_images"
    /\ last.err = ""
    /\ Len(trace) >= 3
    /\ current # None

\* C4: delete_images of only the active image, with another image in the store,
\* makes the image after it in store order active, or the one before it when the
\* deleted image was the last.
C4_DeleteActiveOnly ==
    [][(/\ last'.op = "delete_images"
        /\ current # None
        /\ last'.ids = <<current>>
        /\ Len(images) > 1)
       => LET i == FirstIdx([k \in 1 .. Len(images) |-> images[k] = current])
          IN /\ last'.err = ""
             /\ images' = RemoveAt(images, i)
             /\ current' = IF i < Len(images) THEN images[i + 1] ELSE images[i - 1]]_vars

\* The active image was the last one and another image preceded it: the one
\* before it is active now.
C4_Witness ==
    /\ last.op = "delete_images"
    /\ last.err = ""
    /\ Len(last.ids) = 1
    /\ Len(trace) = 3
    /\ LET before == trace[1].images
       IN /\ before[Len(before)] = last.ids[1]
          /\ before[Len(before) - 1] # last.ids[1]
          /\ current = before[Len(before) - 1]

\* C5: boxes and label_uids of every image have the same length at all times.
C5_SameLength ==
    \A o \in created : Len(img[o].boxes) = Len(img[o].label_uids)

\* C6: an init call in which something fails returns without raising and leaves
\* the image's boxes, label_uids and auto_intialized flag as they were.
C6_FailedInitChangesNothing ==
    [][(last'.op = "init" /\ last'.note \in {"open_error", "model_error", "map_error"})
        => (last'.err = "" /\ img' = img)]_vars

\* C7: auto_intialized never goes back to false, and an init call on an
\* initialized image does not invoke the detector and changes no image.
C7_InitOnce ==
    [][/\ \A o \in Ids : img[o].auto_intialized => img'[o].auto_intialized
       /\ (last'.op = "init" /\ img[last'.ids[1]].auto_intialized)
            => (img' = img /\ last'.called = <<>> /\ last'.err = "")]_vars

\* An init call on an initialized image that holds more boxes than the detector
\* returns: boxes the user has added since.
C7_Witness ==
    /\ last.op = "init"
    /\ last.note = "noop"
    /\ img[last.ids[1]].auto_intialized
    /\ Len(img[last.ids[1]].boxes) > MaxDet

C9_CallerErrorsChangeNothing ==
    [][/\ (/\ last'.op = "delete_images"
           /\ \/ \E i \in 1 .. Len(last'.ids) : last'.ids[i] \notin Range(images)
              \/ \E i, j \in 1 .. Len(last'.ids) : i # j /\ last'.ids[i] = last'.ids[j])
          => (last'.err = "ValueError" /\ images' = images /\ current' = current
              /\ img' = img)
       /\ (/\ last'.op \in {"activate_image", "jump_to", "getitem"}
           /\ last'.ids[1] \notin Range(images))
          => (last'.err = "ValueError" /\ images' = images /\ current' = current
              /\ img' = img)]_vars

\* delete_images was given the identity of a stored image twice, and raised.
C9_Witness ==
    /\ last.op = "delete_images"
    /\ last.err = "ValueError"
    /\ Len(last.ids) = 2
    /\ last.ids[1] = last.ids[2]
    /\ last.ids[1] \in Range(images)

\* What C10 says of the list and the return value: the new images are appended in
\* argument order and their identities returned in that order, a path giving a
\* new identity.
C10_Appended ==
    /\ images' = images \o last'.ret
    /\ Len(last'.ret) = Len(last'.ids)
    /\ \A i \in 1 .. Len(last'.ids) :
          IF last'.ids[i] \in Ids THEN last'.ret[i] = last'.ids[i]
          ELSE /\ last'.ret[i] \notin created
               /\ \A j \in 1 .. Len(last'.ret) : j # i => last'.ret[j] # last'.ret[i]

\* C10 as stated: add_images appends and returns the new images in argument
\* order; in an empty store the first new image becomes active and is
\* auto-initialized, in any other the active identity is unchanged.
C10_AddImagesInitialized ==
    [][(last'.op = "add_images" /\ last'.err = "")
       => /\ C10_Appended
          /\ IF Len(images) = 0 /\ Len(last'.ret) > 0
             THEN current' = last'.ret[1] /\ img'[last'.ret[1]].auto_intialized
             ELSE current' = current]_vars

\* C10 amended: as stated, except that the first new image of an empty store is
\* auto-initialized only if its initialization succeeds (or it was initialized
\* already); when the image cannot be opened or detection fails it is active and
\* not initialized.
C10_AddImages ==
    [][(last'.op = "add_images" /\ last'.err = "")
       => /\ C10_Appended
          /\ IF Len(images) = 0 /\ Len(last'.ret) > 0
             THEN /\ current' = last'.ret[1]
                  /\ img'[last'.ret[1]].auto_intialized <=> last'.note \in {"ok", "noop"}
             ELSE current' = current]_vars

\* Two images were added to an empty store; the first is active and the
\* detector failed on it.
C10_Witness ==
    /\ last.op = "add_images"
    /\ last.err = ""
    /\ Len(last.ret) = 2
    /\ images = last.ret
    /\ current = last.ret[1]
    /\ last.note = "model_error"
    /\ ~img[current].auto_intialized

C12_ActivateOnly ==
    [][(last'.op = "activate_image" /\ last'.ids[1] \in Range(images))
       => /\ last'.err = ""
          /\ current' = last'.ids[1]
          /\ last'.called = <<>>
          /\ \A o \in Ids : /\ img'[o].auto_intialized = img[o].auto_intialized
                             /\ img'[o].boxes = img[o].boxes
                             /\ img'[o].label_uids = img[o].label_uids
          /\ images' = images]_vars

\* An image that is not initialized was activated, and it is still not initialized.
C12_Witness ==
    /\ last.op = "activate_image"
    /\ last.err = ""
    /\ current = last.ids[1]
    /\ Len(images) >= 2
    /\ current # images[1]
    /\ ~img[current].auto_intialized
    /\ img[current].boxes = <<>>

\* C13: the detector runs lazily. An image changes (is auto-initialized, gets
\* boxes) and the detector is called only in a call that makes that image the
\* active one: next, jump_to, or add_images putting it first into an empty store.
C13_LazyStep ==
    [][\A o \in Ids :
          (img'[o] # img[o] \/ o \in Range(last'.called))
             => /\ current' = o
                /\ last'.called = <<o>>
                /\ \/ last'.op \in {"next", "jump_to"}
                   \/ last'.op = "add_images" /\ images = <<>> /\ images'[1] = o]_vars

\* C13, the state it leaves: an image that is not initialized has no boxes.
C13_Lazy ==
    /\ C13_LazyStep
    /\ [](\A o \in Ids : ~img[o].auto_intialized
                              => (img[o].boxes = <<>> /\ img[o].label_uids = <<>>))

\* Three images are in the store, the first two initialized by navigation, the
\* third never visited and still without boxes.
C13_Witness ==
    /\ Len(images) = 3
    /\ Cardinality(Range(images)) = 3
    /\ img[images[1]].auto_intialized
    /\ img[images[2]].auto_intialized
    /\ ~img[images[3]].auto_intialized
    /\ img[images[3]].boxes = <<>>
    /\ current = images[2]

\* C14: after Controller.mark_ready() on a store with an active image, the ready
\* flag of the active image is true (and a second call leaves it true).
C14_MarkReady ==
    [][(last'.op = "Controller.mark_ready" /\ images # <<>> /\ current # None)
       => img'[current'].ready]_vars

\* C15: change_image_annotation with an identity that is not in the store, or
\* with neither a box nor a label uid, fails with an error, and no image's boxes
\* or labels change.
C15_CallerErrors ==
    [][(/\ last'.op = "change_image_annotation"
        /\ \/ last'.ids[1] \notin Range(images)
           \/ last'.box = NoBox /\ last'.n2 = NoUid)
       => (last'.err # "" /\ img' = img)]_vars

\* A call with neither a box nor a label uid, for an image in the store that has
\* boxes, at an index that is in range, has failed.
C15_Witness ==
    /\ last.op = "change_image_annotation"
    /\ last.ids[1] \in Range(images)
    /\ last.box = NoBox
    /\ last.n2 = NoUid
    /\ last.n1 < Len(img[last.ids[1]].boxes)
    /\ last.err = "Warning"

C17_DeleteEntry ==
    [][(/\ last'.op = "delete"
        /\ 0 <= last'.n1
        /\ last'.n1 < Len(img[last'.ids[1]].boxes))
       => LET o == last'.ids[1]
              p == last'.n1 + 1
          IN /\ last'.err = ""
             /\ img'[o].boxes = RemoveAt(img[o].boxes, p)
             /\ img'[o].label_uids = RemoveAt(img[o].label_uids, p)
             /\ (last.op = "add_box" /\ last.ids = <<o>> /\ p = Len(img[o].boxes))
                   => /\ Append(img'[o].boxes, last.n1) = img[o].boxes
                      /\ Append(img'[o].label_uids, last.n2) = img[o].label_uids]_vars

\* C18: labels_to_uids, on a store that has classes, returns a list as long as
\* its input, in which a label that is the name of a class is that class's uid
\* and any other label is the uid of the store's default class.
C18_LabelsToUids ==
    [][(last'.op = "labels_to_uids" /\ classes # <<>>)
       => LET labels == last'.labels
              uids == last'.ret
          IN /\ last'.err = ""
             /\ Len(uids) = Len(labels)
             /\ \A i \in 1 .. Len(labels) :
                   \E k \in 1 .. Len(classes) :
                       /\ classes[k].uid = uids[i]
                       /\ IF labels[i] \in get_class_names(classes)
                          THEN classes[k].name = labels[i]
                          ELSE classes[k].default]_vars

C20_AddClass ==
    [][last'.op = "add_class"
       => IF \/ \E k \in 1 .. Len(classes) : classes[k].uid = last'.n1
             \/ \E k \in 1 .. Len(classes) : classes[k].name = last'.note
             \/ last'.flag /\ \E k \in 1 .. Len(classes) : classes[k].default
          THEN last'.err = "ValueError" /\ classes' = classes /\ last'.ret = <<>>
          ELSE /\ last'.err = ""
               /\ Len(classes') = Len(classes) + 1
               /\ SubSeq(classes', 1, Len(classes)) = classes
               /\ classes'[Len(classes')] =
                      [uid |-> last'.n1, name |-> last'.note, color |-> last'.color,
                       default |-> last'.flag]
               /\ last'.ret = <<classes'[Len(classes')]>>]_vars

\* add_class with a new uid, a new name and is_default = TRUE was refused because
\* the store has a default class.
C20_Witness ==
    /\ last.op = "add_class"
    /\ last.err = "ValueError"
    /\ last.flag
    /\ Len(classes) > 0
    /\ \A k \in 1 .. Len(classes) : classes[k].uid # last.n1 /\ classes[k].name # last.note
    /\ \E k \in 1 .. Len(classes) : classes[k].default

\* C21: delete_class(uid) removes exactly the class with that uid and keeps the
\* others in order; when the removed class was the default, the first remaining
\* class becomes the default, and otherwise the default flags are what they were.
C21_DeleteClass ==
    [][last'.op = "delete_class"
       => LET kept == SelectSeq(classes, LAMBDA c : c.uid # last'.n1)
          IN /\ Len(classes') = Len(kept)
             /\ \A k \in 1 .. Len(kept) :
                   /\ classes'[k].uid = kept[k].uid
                   /\ classes'[k].name = kept[k].name
                   /\ classes'[k].color = kept[k].color
             /\ IF \E k \in 1 .. Len(classes) :
                      classes[k].uid = last'.n1 /\ classes[k].default
                THEN \A k \in 1 .. Len(kept) : classes'[k].default <=> (k = 1)
                ELSE \A k \in 1 .. Len(kept) : classes'[k].default = kept[k].default]_vars

\* C22: delete_class called with the uid of the only class of the store returns
\* without an error and leaves a store of zero classes.
C22_LastClass ==
    [][(last'.op = "delete_class" /\ Len(classes) = 1 /\ classes[1].uid = last'.n1)
       => last'.err = "" /\ classes' = <<>>]_vars

\* C22: the only class was deleted; the store is empty and the call raised.
C22_Witness ==
    /\ last.op = "delete_class"
    /\ last.err = "IndexError"
    /\ classes = <<>>

\* C23: set_default_uid(uid) for a uid of the store returns and makes that class
\* the only default, so that get_default_uid() is uid; for a uid that no class has
\* it raises and the default flags are what they were.
C23_SetDefaultUid ==
    [][last'.op = "set_default_uid"
       => IF \E k \in 1 .. Len(classes) : classes[k].uid = last'.n1
          THEN /\ last'.err = ""
               /\ \A k \in 1 .. Len(classes') :
                     classes'[k].default <=> classes'[k].uid = last'.n1
               /\ get_default_uid(classes') = last'.n1
          ELSE /\ last'.err # ""
               /\ \A k \in 1 .. Len(classes) : classes'[k].default = classes[k].default]_vars

\* C23: set_default_uid with a uid that no class has raised, and no class of the
\* store is the default any more.
C23_Witness ==
    /\ last.op = "set_default_uid"
    /\ last.err = "StopIteration"
    /\ Len(classes) > 0
    /\ \A k \in 1 .. Len(classes) : classes[k].uid # last.n1 /\ ~classes[k].default

\* The step is a call change_name(uids, names): the history has the lengths of
\* the two lists, and the class list and the error are what the call leaves.
C24_Called(uids, names) ==
    /\ last'.op = "change_name"
    /\ last'.n1 = Len(uids)
    /\ last'.n2 = Len(names)
    /\ change_name(classes, uids, names).classes = classes'
    /\ change_name(classes, uids, names).err = last'.err

\* The three conditions under which change_name is to fail.
C24_Refused(uids, names) ==
    \/ Len(uids) # Len(names)
    \/ \E i \in 1 .. Len(names), k \in 1 .. Len(classes) : names[i] = classes[k].name
    \/ \E i, j \in 1 .. Len(names) : i # j /\ names[i] = names[j]

\* C24: change_name(uids, names) raises when the lists differ in length, when a
\* new name is the name of a class of the store, or when a new name is listed
\* twice; otherwise every class whose uid is listed has the name listed with it.
C24_ChangeName ==
    [][\A uids \in SeqsUpTo(Uids, MaxRename), names \in SeqsUpTo(NewNames, MaxRename) :
          C24_Called(uids, names)
          => IF C24_Refused(uids, names) THEN last'.err # ""
             ELSE /\ last'.err = ""
                  /\ \A i \in 1 .. Len(uids), k \in 1 .. Len(classes) :
                        classes[k].uid = uids[i] => classes'[k].name = names[i]]_vars

\* C24: change_name with two uids and two new names raised StopIteration at its
\* second uid, after the class listed first was renamed.
C24_Witness ==
    /\ last.op = "change_name"
    /\ last.err = "StopIteration"
    /\ last.n1 = 2
    /\ last.n2 = 2
    /\ Len(classes) = 2
    /\ classes[1].name \in NewNames
    /\ classes[2].name = InitNames[2]

\* C25: no two classes of the store have the same uid, and no two have the same
\* name.
C25_UniqueUidAndName ==
    \A i, j \in 1 .. Len(classes) :
        i # j => classes[i].uid # classes[j].uid /\ classes[i].name # classes[j].name

\* C25: a store of three classes, one of them added by add_class and the others
\* renamed, after a change_name call that was refused.
C25_Witness ==
    /\ last.op = "change_name"
    /\ last.err = "ValueError"
    /\ last.n1 = last.n2
    /\ Len(classes) = 3
    /\ classes[1].name = "class4"
    /\ classes[2].name = "class3"
    /\ classes[3].name \in Range(InitNames)

\* C26: the split of the shuffled list of n eligible images is train = its first
\* floor(n * (1 - test_split)) images and test = the remaining ones: train and
\* test are disjoint, together hold every image once, and test has
\* n - floor(n * (1 - test_split)) images (test_split = n1 / SplitDen).
C26_Split ==
    [][last'.op = "train_test"
       => LET n == Len(last'.ids)
              tc == (n * (SplitDen - last'.n1)) \div SplitDen
          IN /\ last'.ret = SubSeq(last'.ids, 1, tc)
             /\ last'.called = SubSeq(last'.ids, tc + 1, n)
             /\ Range(last'.ret) \cap Range(last'.called) = {}
             /\ Range(last'.ret) \cup Range(last'.called) = 1 .. n
             /\ Len(last'.ret) + Len(last'.called) = n
             /\ Len(last'.called) = n - tc]_vars

\* C26: five images were split with test_split = 0.8 and train got none of them.
C26_Witness ==
    /\ last.op = "train_test"
    /\ Len(last.ids) = 5
    /\ last.n1 = 8
    /\ last.ret = <<>>
    /\ Len(last.called) = 5

\* C27: after an export that completed, the exported images (train then test) are,
\* with only_ready true, exactly the images of the store whose ready flag is true,
\* each once, and with only_ready false every image of the store, whatever its
\* ready flag or its number of boxes; a JSON file lists exactly these images.
C27_OnlyReady ==
    (last.op = "export" /\ last.err = "") =>
        LET exported == last.ret \o last.called
            wanted == {i \in 1 .. Len(images) : ~last.flag \/ img[images[i]].ready}
        IN /\ Range(exported) = {images[i] : i \in wanted}
           /\ Len(exported) = Cardinality(wanted)
           /\ last.out.kind = "json" =>
                 /\ Len(last.out.train) + Len(last.out.test) = Cardinality(wanted)
                 /\ {d.image : d \in Range(last.out.train) \cup Range(last.out.test)}
                       = {images[i] : i \in wanted}

\* C27: an export with only_ready true completed on a store with one image that is
\* ready and one with boxes that is not, and exported one image.
C27_Witness ==
    /\ last.op = "export"
    /\ last.err = ""
    /\ last.flag
    /\ \E i \in 1 .. Len(images) : img[images[i]].ready
    /\ \E i \in 1 .. Len(images) : ~img[images[i]].ready /\ Len(img[images[i]].boxes) > 0
    /\ Len(last.ret \o last.called) = 1

\* C28: export is deterministic: what an export call raised, the train and test
\* lists it made (their order and the assignment of the images) and the output
\* it wrote are those of export with the same store, class store, only_ready,
\* test_split and seed from every state the random generator can have been in.
C28_Deterministic ==
    last.op = "export" =>
        \A s \in 0 .. RngMod - 1 :
            LET r == export(last.path, last.note, images, img, classes,
                            last.flag, last.n1, last.n2, s)
            IN /\ r.err = last.err
               /\ r.train = last.ret
               /\ r.test = last.called
               /\ r.out = last.out

\* C28: an export of two images completed, with one image in train and one in
\* test, in another order than the store's.
C28_Witness ==
    /\ last.op = "export"
    /\ last.err = ""
    /\ Len(last.ret) = 1
    /\ Len(last.called) = 1
    /\ last.ret \o last.called # images
    /\ last.out.kind # "none"

\* C29: an export whose format is not csv, json or yolo (compared without regard
\* to case), or whose format is csv with a path not ending in .csv, or json with a
\* path not ending in .json, raises ValueError and has written no file and made
\* no directory.
C29_InvalidRequest ==
    (/\ last.op = "export"
     /\ \/ last.note \notin {"csv", "CSV", "json", "yolo"}
        \/ last.note \in {"csv", "CSV"} /\ last.path[2] # ".csv"
        \/ last.note = "json" /\ last.path[2] # ".json")
    => (last.err = "ValueError" /\ last.out = NoOut)

\* C29: a CSV export to a path that ends in .json was refused, on a store with
\* boxes to write.
C29_Witness ==
    /\ last.op = "export"
    /\ last.note = "CSV"
    /\ last.path[2] = ".json"
    /\ last.err = "ValueError"
    /\ last.out = NoOut
    /\ \E i \in 1 .. Len(images) : Len(img[images[i]].boxes) > 0

\* C30: a CSV export to a .csv path completes and its file has exactly one data
\* row per bounding box of each exported image, hence as many rows as the
\* exported images have boxes and none for an image without boxes; the row of a
\* train image is marked train, that of a test image test, and no test row comes
\* before a train row.
C30_CsvRows ==
    (last.op = "export" /\ last.note = "CSV" /\ last.path[2] = ".csv") =>
        LET exported == last.ret \o last.called
            rows == last.out.rows
        IN /\ last.err = ""
           /\ last.out.kind = "csv"
           /\ Len(rows) = Cardinality(UNION {{<<o, b>> : b \in 1 .. Len(img[o].boxes)} :
                                               o \in Range(exported)})
           /\ \A o \in Range(exported) :
                 Cardinality({j \in 1 .. Len(rows) : rows[j].image = o}) = Len(img[o].boxes)
           /\ \A j \in 1 .. Len(rows) :
                 /\ rows[j].split = "train" <=> rows[j].image \in Range(last.ret)
                 /\ rows[j].split = "test" <=> rows[j].image \in Range(last.called)
           /\ \A i, j \in 1 .. Len(rows) :
                 (i < j) => ~(rows[i].split = "test" /\ rows[j].split = "train")

\* C30: a CSV export completed on a store with an image that has more boxes than
\* labels, and wrote fewer rows than that image has boxes.
C30_Witness ==
    /\ last.op = "export"
    /\ last.note = "CSV"
    /\ last.err = ""
    /\ last.out.kind = "csv"
    /\ \E o \in Range(last.ret \o last.called) :
          /\ Len(img[o].boxes) > Len(img[o].label_uids)
          /\ Cardinality({j \in 1 .. Len(last.out.rows) : last.out.rows[j].image = o})
                < Len(img[o].boxes)

\* C31: in a YOLO export every line of an image's label file carries the box it was
\* written for and, as class number, the position (from 0) of that box's class in
\* the class store's list, whatever the class's uid; a completed export has a
\* data.yaml whose nc is the number of classes and whose names are the class
\* names at the same positions.
C31_YoloIndex ==
    (last.op = "export" /\ last.out.kind = "yolo") =>
        /\ \A f \in Range(last.out.train) \cup Range(last.out.test) :
              \A j \in 1 .. Len(f.lines) :
                 /\ f.lines[j].box = img[f.image].boxes[j]
                 /\ f.lines[j].label_idx \in 0 .. Len(classes) - 1
                 /\ classes[f.lines[j].label_idx + 1].uid = img[f.image].label_uids[j]
        /\ last.err = "" =>
              /\ Len(last.out.yaml) = 1
              /\ last.out.yaml[1].nc = Len(classes)
              /\ \A c \in 1 .. Len(classes) : last.out.yaml[1].names[c] = classes[c].name

\* C31: a YOLO export completed after a class was deleted, and wrote a line whose
\* class number is not the uid of the box's class.
C31_Witness ==
    /\ last.op = "export"
    /\ last.out.kind = "yolo"
    /\ last.err = ""
    /\ \E f \in Range(last.out.train) \cup Range(last.out.test) :
          \E j \in 1 .. Len(f.lines) : f.lines[j].label_idx # img[f.image].label_uids[j]

\* C32: an export call, whether it returns or raises, leaves the image store's
\* order, its active identity, every image's boxes, label_uids, ready and
\* auto_initialized flags, and the class store's classes as they were.
C32_ReadOnly ==
    [][last'.op = "export" =>
          /\ images' = images
          /\ current' = current
          /\ img' = img
          /\ classes' = classes]_vars

\* C32: a YOLO export of both images of the store completed and took them in
\* another order than the store's.
C32_Witness ==
    /\ last.op = "export"
    /\ last.out.kind = "yolo"
    /\ last.err = ""
    /\ ~last.flag
    /\ Len(last.out.train) + Len(last.out.test) = Len(images)
    /\ last.ret \o last.called # images

\* C33: import_json of a file that the JSON export wrote succeeds and yields one
\* fresh image per image in the file, each without boxes and labels and not
\* ready (the first image of a store that was empty or replaced is the active
\* one, and initialized).
C33_ImportExported ==
    last.op = "import_json" =>
        /\ last.err = ""
        /\ Len(last.ret) = last.n1
        /\ \A o \in Range(last.ret) :
              /\ o \in Range(images)
              /\ ~img[o].ready
              /\ o # current => (img[o].boxes = <<>> /\ img[o].label_uids = <<>>)

\* C33: import_json of a file that the JSON export wrote with two images raised
\* TypeError.
C33_Witness ==
    /\ last.op = "import_json"
    /\ last.n1 = 2
    /\ last.err = "TypeError"

\* C34 (helper): old is a subsequence of new: its elements are all in new, in the same order.
C34_IsSubsequence(old, new) ==
    \E f \in [1 .. Len(old) -> 1 .. Len(new)] :
        /\ \A i \in 1 .. Len(old) : new[f[i]] = old[i]
        /\ \A i, j \in 1 .. Len(old) : (i < j) => (f[i] < f[j])

\* C34: a next or jump_to call discards no annotation: for every image, the boxes
\* and the labels it held before the call are all present after it, in the same
\* order.
C34_NavigationKeeps ==
    [][last'.op \in {"next", "jump_to"} =>
          \A o \in Ids :
             /\ C34_IsSubsequence(img[o].boxes, img'[o].boxes)
             /\ C34_IsSubsequence(img[o].label_uids, img'[o].label_uids)]_vars

\* C35: every label uid stored in an image of the store is the uid of a class that
\* is in the class store.
C35_LabelsAreClasses ==
    \A o \in Range(images) :
        \A j \in 1 .. Len(img[o].label_uids) :
            img[o].label_uids[j] \in get_class_uids(classes)

\* C35: Controller.delete_class has deleted a class and given its boxes to
\* another class, and an image has a box of that class.
C35_Witness ==
    /\ last.op = "Controller.delete_class"
    /\ last.err = ""
    /\ last.n2 \in get_class_uids(classes)
    /\ last.n1 \notin get_class_uids(classes)
    /\ \E o \in Range(images) : \E j \in 1 .. Len(img[o].label_uids) :
          img[o].label_uids[j] = last.n2

\* C36: no two entries of the image store have the same identity.
C36_UniqueIdentities ==
    \A i, j \in 1 .. Len(images) : (images[i] = images[j]) => (i = j)

\* C36: add_images has appended a SingleImage object that the store already held.
C36_Witness ==
    /\ last.op = "add_images"
    /\ last.err = ""
    /\ Len(last.ret) = 1
    /\ Cardinality({i \in 1 .. Len(images) : images[i] = last.ret[1]}) = 2

\* C37: when delete_images is given identities that include the active one and an
\* image of the store survives, the new active image is the first surviving image
\* after the old active image's position, or the last surviving image before it
\* if none after it survives, whatever the order of the identities given.
C37_NewActive ==
    [][(/\ last'.op = "delete_images"
        /\ last'.err = ""
        /\ current \in Range(last'.ids)
        /\ \E k \in 1 .. Len(images) : images[k] \notin Range(last'.ids))
       => LET pos == FirstIdx([k \in 1 .. Len(images) |-> images[k] = current])
              after == {k \in pos + 1 .. Len(images) : images[k] \notin Range(last'.ids)}
              before == {k \in 1 .. pos - 1 : images[k] \notin Range(last'.ids)}
          IN current' = IF after # {}
                        THEN images[CHOOSE k \in after : \A m \in after : k <= m]
                        ELSE images[CHOOSE k \in before : \A m \in before : k >= m]]_vars

\* C37: delete_images was given the active image and another one, in a store of
\* three different images, the deleted ones not next to each other, and the one
\* between them is active.
C37_Witness ==
    /\ last.op = "delete_images"
    /\ last.err = ""
    /\ Len(last.ids) = 2
    /\ Len(trace) = 3
    /\ Len(trace[1].images) = 3
    /\ trace[1].images[1] \in Range(last.ids)
    /\ trace[1].images[3] \in Range(last.ids)
    /\ trace[1].images[1] # trace[1].images[3]
    /\ images = <<current>>
    /\ current = trace[1].images[2]

\* C38: a delete_images call that returns leaves exactly the images whose
\* identities were not given, in their order, with their boxes, label_uids, ready
\* and auto_initialized flags as they were; the active identity is unchanged
\* if it was not among those given.
C38_DeleteExactly ==
    [][(last'.op = "delete_images" /\ last'.err = "") =>
          /\ images' = SelectSeq(images, LAMBDA o : o \notin Range(last'.ids))
          /\ img' = img
          /\ current \notin Range(last'.ids) => current' = current]_vars

\* C38: delete_images has removed one image that was not active from a store of
\* three different images, and the active image is still the one it was.
C38_Witness ==
    /\ last.op = "delete_images"
    /\ last.err = ""
    /\ Len(last.ids) = 1
    /\ Len(trace) = 1
    /\ Len(images) = 2
    /\ images[1] # images[2]
    /\ current \in Range(images)
    /\ current \notin Range(last.ids)

\* C39: a change_name call that raises, for whatever reason, has changed the name
\* of no class: the class list is as it was before the call.
C39_AllOrNothing ==
    [][(last'.op = "change_name" /\ last'.err # "") => classes' = classes]_vars

\* C39: a change_name call with one uid and one name raised StopIteration, and the
\* classes have the names the store was constructed with.
C39_Witness ==
    /\ last.op = "change_name"
    /\ last.err = "StopIteration"
    /\ last.n1 = 1
    /\ last.n2 = 1
    /\ Len(classes) = Len(InitNames)
    /\ \A k \in 1 .. Len(classes) : classes[k].name = InitNames[k]

\* C40: a delete_images call ends, and every recursive call it makes is given
\* strictly fewer identities than the call that makes it, so there are at most as
\* many recursive calls as identities were given. (Every call but the last makes
\* two steps, the last call one.)
C40_Terminates ==
    last.op = "delete_images" =>
        /\ Len(trace) % 2 = 1
        /\ trace[1].uuid = last.ids
        /\ \A c \in 1 .. (Len(trace) - 1) \div 2 :
              /\ trace[2 * c].uuid = trace[2 * c - 1].uuid
              /\ Len(trace[2 * c + 1].uuid) < Len(trace[2 * c - 1].uuid)
        /\ (Len(trace) - 1) \div 2 <= Len(last.ids)

\* C40: a delete_images call given two identities made two recursive calls, the
\* second with no identity left.
C40_Witness ==
    /\ last.op = "delete_images"
    /\ last.err = ""
    /\ Len(last.ids) = 2
    /\ Len(trace) = 5
    /\ trace[5].uuid = <<>>

====
